---------------------------- MODULE Spec2Model ----------------------------
(***************************************************************************)
(* The node tree of the FUSE daemon (jni/node-inl.h): nodes with a         *)
(* reference count, a parent link and a children list, the NodeTracker     *)
(* set of active nodes, and the inode <-> node mapping.                    *)
(*                                                                         *)
(* A node is identified by its address.  Every public operation holds the  *)
(* recursive lock for its whole body, so in Spec one operation is one      *)
(* atomic action.  A failed CHECK aborts the process: aborted becomes TRUE *)
(* and nothing happens afterwards.  An access to a freed node is undefined *)
(* behaviour; it either crashes the process or goes on with the bytes the  *)
(* freed node still holds, and ub records that it happened.                *)
(***************************************************************************)
EXTENDS Integers, Sequences, FiniteSets, TLC

\* Number of heap addresses a node can be allocated at.
NumAddr == 3
\* Largest reference count the model lets a node reach.
MaxRef == 4
\* Largest count given to Release.
MaxCount == 3
\* Number of handle objects and of dirhandle objects.
NumHandles == 2
NumDirHandles == 2
\* Number of operations in a run of the model.
MaxSteps == 4
\* Threads of the concurrent scenario, and Acquire/Release rounds of each.
NumThreads == 2
Iterations == 2
\* Operations of the observing thread of the creation scenario.
MaxObserved == 2

\* nullptr
NULL == 0
Addr == 1..NumAddr
HandleId == 1..NumHandles
DirHandleId == 1..NumDirHandles
Threads == 1..NumThreads
\* No thread holds the lock.
NoThread == 0

\* Names given to Create and Rename, as sequences of character codes:
\* "a" and "B".
Names == {<<97>>, <<66>>}
\* Names asked of LookupChildByName: "a", "A", "b".
LookupNames == {<<97>>, <<65>>, <<98>>}
\* The path given to CreateRoot: "/".
RootPath == <<47>>

VARIABLES
    alloc,          \* addresses that hold a constructed, not yet freed node
    active_nodes_,  \* NodeTracker::active_nodes_
    refcount_,      \* node::refcount_, by address
    parent_,        \* node::parent_, by address (NULL or an address)
    children_,      \* node::children_, by address (a list of addresses)
    name_,          \* node::name_
    deleted_,       \* node::deleted_
    handles_,       \* node::handles_ (a vector of handle objects)
    dirhandles_,    \* node::dirhandles_
    aborted,        \* a CHECK failed or the process crashed
    op,             \* the last operation: its name and arguments, what it
                    \* returned, whether it logged the "Mismatched reference
                    \* count" error, whether it accessed a freed node and
                    \* whether a CHECK of the NodeTracker failed in it
    roots,          \* history: the live nodes that CreateRoot made
    ext,            \* history: by address, the references handed to callers
                    \* and not yet released by them (-1: they released more)
    dead,           \* history: the identifiers of destroyed nodes
    balanced,       \* history: no Release of a caller has released more
                    \* references of a node than the callers had been given
    closed,         \* history: by handle, how many times ~handle has closed it
    dclosed,        \* history: the same for the dirhandles and ~dirhandle
    steps,          \* the number of operations so far
    lockOwner,      \* the thread that holds the recursive lock, or NoThread
    pc,             \* concurrent scenario: where each thread is
    tmp,            \* concurrent scenario: the refcount_ each thread has read
    iter            \* concurrent scenario: the rounds each thread has done

heapvars == <<alloc, active_nodes_, refcount_, parent_, children_, name_, deleted_,
              handles_, dirhandles_>>

histvars == <<roots, ext, dead, balanced, closed, dclosed>>

concvars == <<lockOwner, pc, tmp, iter>>

vars == <<alloc, active_nodes_, refcount_, parent_, children_, name_, deleted_,
          handles_, dirhandles_, aborted, op, roots, ext, dead, balanced, closed,
          dclosed, steps, lockOwner, pc, tmp, iter>>

----------------------------------------------------------------------------
\* Helpers on lists.

Contains(s, x) == \E i \in 1..Len(s) : s[i] = x

\* The number of times c is in the list s.
Occurrences(s, c) == Cardinality({i \in 1..Len(s) : s[i] = c})

\* std::find: the first position of x in s (0 when absent).
FindFirst(s, x) ==
    IF Contains(s, x)
    THEN CHOOSE i \in 1..Len(s) : s[i] = x /\ \A j \in 1..(i-1) : s[j] # x
    ELSE 0

\* erase(it)
EraseAt(s, i) == [k \in 1..(Len(s) - 1) |-> IF k < i THEN s[k] ELSE s[k + 1]]

\* tolower on a character code.
ToLower(c) == IF c >= 65 /\ c <= 90 THEN c + 32 ELSE c

\* strcasecmp(a, b) == 0
StrCaseEq(a, b) == Len(a) = Len(b) /\ \A i \in 1..Len(a) : ToLower(a[i]) = ToLower(b[i])

----------------------------------------------------------------------------
\* The heap as one record, so that the nested calls of an operation can be
\* written as functions from heap to heap.  ubmode says what an access to a
\* freed node does in this run of the operation: "crash" or "stale".

Heap(u) == [alloc |-> alloc, active |-> active_nodes_, refcount |-> refcount_,
            parent |-> parent_, children |-> children_, name |-> name_,
            deleted |-> deleted_, handles |-> handles_, dirhandles |-> dirhandles_,
            closed |-> closed, dclosed |-> dclosed,
            aborted |-> FALSE, ub |-> FALSE, err |-> FALSE, tracker |-> FALSE,
            ubmode |-> u, ret |-> FALSE]

\* CHECK(false): the process aborts.
Abort(h) == [h EXCEPT !.aborted = TRUE]

\* An access to node n.  A live node is simply accessed; a freed one is
\* undefined behaviour, which crashes or reads the stale bytes.
Deref(h, n) ==
    IF h.aborted \/ n \in h.alloc THEN h
    ELSE IF h.ubmode = "crash" THEN [h EXCEPT !.aborted = TRUE, !.ub = TRUE]
    ELSE [h EXCEPT !.ub = TRUE]

\* A CHECK of the NodeTracker fails: the process aborts.
TrackerAbort(h) == [h EXCEPT !.aborted = TRUE, !.tracker = TRUE]

\* NodeTracker::NodeCreated
NodeCreated(h, n) ==
    IF h.aborted THEN h
    ELSE IF n \in h.active THEN TrackerAbort(h)
    ELSE [h EXCEPT !.active = @ \cup {n}]

\* Mutant of NodeDeleted: the node stays in the set.
NodeDeletedKeeps(h, n) ==
    IF h.aborted THEN h
    ELSE IF n \notin h.active THEN TrackerAbort(h)
    ELSE h

\* NodeTracker::NodeDeleted
NodeDeleted(h, n) ==
    IF h.aborted THEN h
    ELSE IF n \notin h.active THEN TrackerAbort(h)
    ELSE [h EXCEPT !.active = @ \ {n}]

\* node::Acquire
Acquire(h, n) ==
    IF h.aborted THEN h
    ELSE [h EXCEPT !.refcount[n] = @ + 1]

\* Mutant of Mismatched: an over-release drops the references that are left.
MismatchedClamps(h, n, count) == [h EXCEPT !.refcount[n] = 0, !.err = TRUE, !.ret = FALSE]

\* The over-release branch of node::Release: the error is logged and
\* nothing else happens.
Mismatched(h, n, count) == [h EXCEPT !.err = TRUE, !.ret = FALSE]

\* The test of node::Release that lets the count be subtracted.
CanRelease(refcount, count) == refcount >= count

\* Mutant of FullyReleased: the node is never destroyed.
NeverFullyReleased(refcount) == refcount < 0

\* The test of node::Release that destroys the node.
FullyReleased(refcount) == refcount = 0

RECURSIVE ReleaseH(_, _, _)
RECURSIVE DeleteH(_, _)
RECURSIVE RemoveFromParent(_, _)

\* Mutant of RemoveFromParent: the parent is not released.
RemoveFromParentKeepsRef(h, n) ==
    IF h.aborted \/ h.parent[n] = NULL THEN h
    ELSE LET p  == h.parent[n]
             h0 == Deref(h, p)
             it == FindFirst(h0.children[p], n)
         IN IF h0.aborted THEN h0
            ELSE IF it = 0 THEN Abort(h0)
            ELSE [h0 EXCEPT !.children[p] = EraseAt(@, it), !.parent[n] = NULL]

\* node::RemoveFromParent
RemoveFromParent(h, n) ==
    IF h.aborted \/ h.parent[n] = NULL THEN h
    ELSE LET p  == h.parent[n]
             h0 == Deref(h, p)
             it == FindFirst(h0.children[p], n)
         IN IF h0.aborted THEN h0
            ELSE IF it = 0 THEN Abort(h0)
            ELSE LET h1 == [h0 EXCEPT !.children[p] = EraseAt(@, it)]
                     h2 == ReleaseH(h1, p, 1)
                 IN IF h2.aborted THEN h2 ELSE [h2 EXCEPT !.parent[n] = NULL]

\* handles_.clear() and dirhandles_.clear(): every handle and dirhandle of
\* the node is destroyed, which closes it.
ClearHandles(h, n) ==
    [h EXCEPT !.closed = [x \in HandleId |-> @[x] + Occurrences(h.handles[n], x)],
              !.dclosed = [d \in DirHandleId |-> @[d] + Occurrences(h.dirhandles[n], d)],
              !.handles[n] = <<>>, !.dirhandles[n] = <<>>]

\* delete this: node::~node, then the node's memory is freed.
DeleteH(h, n) ==
    LET h1 == RemoveFromParent(h, n)
        h2 == IF h1.aborted THEN h1 ELSE ClearHandles(h1, n)
        h3 == NodeDeleted(h2, n)
    IN IF h3.aborted THEN h3
       ELSE [h3 EXCEPT !.alloc = @ \ {n}, !.name[n] = <<>>, !.deleted[n] = FALSE]

\* node::Release
ReleaseH(h, n, count) ==
    LET h0 == Deref(h, n)
    IN IF h0.aborted THEN h0
       ELSE IF CanRelease(h0.refcount[n], count)
            THEN LET h1 == [h0 EXCEPT !.refcount[n] = @ - count]
                 IN IF FullyReleased(h1.refcount[n])
                    THEN LET h2 == DeleteH(h1, n)
                         IN IF h2.aborted THEN h2 ELSE [h2 EXCEPT !.ret = TRUE]
                    ELSE [h1 EXCEPT !.ret = FALSE]
            ELSE Mismatched(h0, n, count)

\* Mutant of AddToParent: the parent is not acquired.
AddToParentNoAcquire(h, n, parent) ==
    IF h.aborted THEN h
    ELSE IF h.parent[n] # NULL \/ parent = NULL THEN Abort(h)
    ELSE [h EXCEPT !.parent[n] = parent, !.children[parent] = Append(@, n)]

\* node::AddToParent
AddToParent(h, n, parent) ==
    IF h.aborted THEN h
    ELSE IF h.parent[n] # NULL THEN Abort(h)
    ELSE IF parent = NULL THEN Abort(h)
    ELSE LET h0 == Deref(h, parent)
         IN IF h0.aborted THEN h0
            ELSE Acquire([h0 EXCEPT !.parent[n] = parent,
                                    !.children[parent] = Append(@, n)], parent)

\* Mutant of NewNode: the constructor does not acquire the node.
NewNodeNoAcquire(h, a, parent, name) ==
    LET h0 == [h EXCEPT !.alloc = @ \cup {a}, !.name[a] = name, !.refcount[a] = 0,
                        !.parent[a] = NULL, !.deleted[a] = FALSE,
                        !.children[a] = <<>>, !.handles[a] = <<>>,
                        !.dirhandles[a] = <<>>]
        h1 == NodeCreated(h0, a)
    IN IF parent # NULL THEN [AddToParent(h1, a, parent) EXCEPT !.ret = a]
       ELSE [h1 EXCEPT !.ret = a]

\* new node(parent, name, lock, tracker) at the free address a.
NewNode(h, a, parent, name) ==
    LET h0 == [h EXCEPT !.alloc = @ \cup {a}, !.name[a] = name, !.refcount[a] = 0,
                        !.parent[a] = NULL, !.deleted[a] = FALSE,
                        !.children[a] = <<>>, !.handles[a] = <<>>,
                        !.dirhandles[a] = <<>>]
        h1 == Acquire(NodeCreated(h0, a), a)
    IN IF parent # NULL THEN [AddToParent(h1, a, parent) EXCEPT !.ret = a]
       ELSE [h1 EXCEPT !.ret = a]

\* Mutant of NewRoot: the root gets no extra reference.
NewRootNoExtraRef(h, a) == NewNode(h, a, NULL, RootPath)

\* The body of node::CreateRoot.
NewRoot(h, a) == Acquire(NewNode(h, a, NULL, RootPath), a)

\* Mutant of Matches: the names are compared with their case.
MatchesCaseSensitive(h, child, name) == name = h.name[child] /\ ~h.deleted[child]

\* Mutant of Matches: a deleted child is returned too.
MatchesIgnoringDeleted(h, child, name) == StrCaseEq(name, h.name[child])

\* The test of node::LookupChildByName on one child: the name matches,
\* whatever the case of its letters, and the child is not deleted.
Matches(h, child, name) == StrCaseEq(name, h.name[child]) /\ ~h.deleted[child]

\* The scan of node::LookupChildByName over the children s: the first child
\* whose name matches and that is not deleted is acquired, if asked, and
\* returned; NULL when there is none.
RECURSIVE LookupScan(_, _, _, _)
LookupScan(h, s, name, acquire) ==
    IF h.aborted THEN h
    ELSE IF s = <<>> THEN [h EXCEPT !.ret = NULL]
    ELSE LET child == Head(s)
             h0 == Deref(h, child)
         IN IF h0.aborted THEN h0
            ELSE IF Matches(h0, child, name)
                 THEN [(IF acquire THEN Acquire(h0, child) ELSE h0) EXCEPT !.ret = child]
                 ELSE LookupScan(h0, Tail(s), name, acquire)

\* The body of node::Rename, which returns nothing.
RenameH(h, n, name, new_parent) ==
    LET h0 == [h EXCEPT !.name[n] = name]
    IN IF new_parent # h0.parent[n]
       THEN [AddToParent(RemoveFromParent(h0, n), n, new_parent) EXCEPT !.ret = FALSE]
       ELSE h0

\* Mutant of DestroyHandleH: the whole vector is cleared.
DestroyHandleClearsAll(h, n, x) ==
    LET it == FindFirst(h.handles[n], x)
    IN IF it = 0 THEN Abort(h)
       ELSE [h EXCEPT !.handles[n] = <<>>,
                      !.closed = [y \in HandleId |-> @[y] + Occurrences(h.handles[n], y)]]

\* The body of node::DestroyHandle: the erased unique_ptr destroys the
\* handle, which closes it.
DestroyHandleH(h, n, x) ==
    LET it == FindFirst(h.handles[n], x)
    IN IF it = 0 THEN Abort(h)
       ELSE [h EXCEPT !.handles[n] = EraseAt(@, it), !.closed[x] = @ + 1]

\* The body of node::DestroyDirHandle.
DestroyDirHandleH(h, n, d) ==
    LET it == FindFirst(h.dirhandles[n], d)
    IN IF it = 0 THEN Abort(h)
       ELSE [h EXCEPT !.dirhandles[n] = EraseAt(@, it), !.dclosed[d] = @ + 1]

\* The width of a node pointer: addresses are numbers below PtrSpace.
PtrSpace == NumAddr + 1

\* node::ToInode: the address of the node, widened to an inode number.
ToInode(n) == n

\* Mutant of InodeToPtr: the cast goes through a type that is too narrow.
InodeToPtrNarrow(ino) == ino % 2

\* The cast of an inode number to a node pointer, in FromInode and in
\* CheckTracked: the number is cut to the width of a pointer.
InodeToPtr(ino) == ino % PtrSpace

\* The CHECK of NodeTracker::CheckTracked passes.
CheckTracked(ino) == InodeToPtr(ino) \in active_nodes_

----------------------------------------------------------------------------
\* The record of an operation: its name and arguments, its return value,
\* whether it logged the "Mismatched reference count" error, whether it
\* accessed a freed node and whether a CHECK of the NodeTracker failed in it.
OpRec(nm, h) == [name |-> nm[1], args |-> Tail(nm),
                 ret |-> IF h.aborted THEN NULL ELSE h.ret,
                 err |-> h.err, ub |-> h.ub, tracker |-> h.tracker]

\* The freed addresses of h that no live node points to: their bytes are
\* out of the program's reach.
Unreachable(h) ==
    {a \in Addr \ h.alloc :
        \A n \in h.alloc : h.parent[n] # a /\ ~Contains(h.children[n], a)}

\* The history variables after an operation with heap h: x is the ext of
\* the next state for the live nodes.
History(h, x) ==
    /\ roots' = IF h.aborted THEN {} ELSE roots \cap h.alloc
    /\ dead' = IF h.aborted THEN {} ELSE dead \cup {ToInode(n) : n \in alloc \ h.alloc}
    /\ ext' = [a \in Addr |-> IF ~h.aborted /\ (a \in h.alloc \/ a \in alloc)
                               THEN x[a] ELSE 0]
    /\ balanced' = (h.aborted \/ (balanced /\ \A a \in Addr : x[a] >= 0))

\* The heap h becomes the next state.  The model stops where a reference
\* count would pass MaxRef and after MaxSteps operations.  When the process
\* has aborted its memory is gone: the heap of the next state is empty.
Commit(nm, h) ==
    /\ steps < MaxSteps
    /\ \A n \in Addr : h.refcount[n] <= MaxRef
    /\ steps' = IF h.aborted THEN MaxSteps ELSE steps + 1
    /\ UNCHANGED concvars
    /\ aborted' = h.aborted
    /\ op' = OpRec(nm, h)
    /\ closed' = IF h.aborted THEN [x \in HandleId |-> 0] ELSE h.closed
    /\ dclosed' = IF h.aborted THEN [d \in DirHandleId |-> 0] ELSE h.dclosed
    /\ LET g == IF h.aborted THEN Addr ELSE Unreachable(h)
           live == IF h.aborted THEN {} ELSE h.alloc
       IN /\ alloc' = live
          /\ active_nodes_' = IF h.aborted THEN {} ELSE h.active
          /\ refcount_' = [a \in Addr |-> IF a \in g THEN 0 ELSE h.refcount[a]]
          /\ parent_' = [a \in Addr |-> IF a \in g THEN NULL ELSE h.parent[a]]
          /\ children_' = [a \in Addr |-> IF a \in g THEN <<>> ELSE h.children[a]]
          /\ name_' = [a \in Addr |-> IF a \in live THEN h.name[a] ELSE <<>>]
          /\ deleted_' = [a \in Addr |-> a \in live /\ h.deleted[a]]
          /\ handles_' = [a \in Addr |-> IF a \in live THEN h.handles[a] ELSE <<>>]
          /\ dirhandles_' = [a \in Addr |-> IF a \in live THEN h.dirhandles[a] ELSE <<>>]

\* The history variables of an operation that makes and destroys no node and
\* hands out no reference.
SameHistory(h) ==
    /\ roots' = IF h.aborted THEN {} ELSE roots
    /\ dead' = IF h.aborted THEN {} ELSE dead
    /\ ext' = IF h.aborted THEN [a \in Addr |-> 0] ELSE ext
    /\ balanced' = (h.aborted \/ balanced)

\* The outcomes of an operation whose heap is hs when an access to a freed
\* node reads the stale bytes and hc when it crashes: without such an access
\* the two are the same.
Outcomes(nm, hs, hc, x) ==
    /\ steps < MaxSteps
    /\ \/ Commit(nm, hs) /\ History(hs, x)
       \/ hs.ub /\ Commit(nm, hc) /\ History(hc, x)

\* The address of the root that the daemon makes when it starts.
FirstRoot == 1

\* The heap before any node is made.
EmptyHeap ==
    [alloc |-> {}, active |-> {}, refcount |-> [a \in Addr |-> 0],
     parent |-> [a \in Addr |-> NULL], children |-> [a \in Addr |-> <<>>],
     name |-> [a \in Addr |-> <<>>], deleted |-> [a \in Addr |-> FALSE],
     handles |-> [a \in Addr |-> <<>>], dirhandles |-> [a \in Addr |-> <<>>],
     closed |-> [x \in HandleId |-> 0], dclosed |-> [d \in DirHandleId |-> 0],
     aborted |-> FALSE, ub |-> FALSE, err |-> FALSE, tracker |-> FALSE,
     ubmode |-> "stale", ret |-> FALSE]

\* The heap h is the state's heap.
HeapIs(h) ==
    /\ alloc = h.alloc
    /\ active_nodes_ = h.active
    /\ refcount_ = h.refcount
    /\ parent_ = h.parent
    /\ children_ = h.children
    /\ name_ = h.name
    /\ deleted_ = h.deleted
    /\ handles_ = h.handles
    /\ dirhandles_ = h.dirhandles
    /\ closed = h.closed
    /\ dclosed = h.dclosed

\* No thread of the concurrent scenario runs.
NoThreads ==
    /\ lockOwner = NoThread
    /\ pc = [t \in Threads |-> "idle"]
    /\ tmp = [t \in Threads |-> 0]
    /\ iter = [t \in Threads |-> 0]

\* The daemon has started: it has made its root with CreateRoot.
Init ==
    /\ HeapIs(NewRoot(EmptyHeap, FirstRoot))
    /\ aborted = FALSE
    /\ op = OpRec(<<"CreateRoot">>, NewRoot(EmptyHeap, FirstRoot))
    /\ roots = {FirstRoot}
    /\ ext = [a \in Addr |-> IF a = FirstRoot THEN 2 ELSE 0]
    /\ dead = {}
    /\ balanced = TRUE
    /\ steps = 0
    /\ NoThreads

\* node::Create(parent, name, lock, tracker); new returns the address a.
Create(a, parent, name) ==
    /\ ~aborted
    /\ a \in Addr \ alloc
    /\ parent \in alloc
    /\ Outcomes(<<"Create", parent, name>>, NewNode(Heap("stale"), a, parent, name),
                NewNode(Heap("crash"), a, parent, name), [ext EXCEPT ![a] = 1])

\* node::CreateRoot(path, lock, tracker); new returns the address a.
CreateRoot(a) ==
    /\ ~aborted
    /\ a \in Addr \ alloc
    /\ Commit(<<"CreateRoot">>, NewRoot(Heap("stale"), a))
    /\ roots' = roots \cup {a}
    /\ ext' = [ext EXCEPT ![a] = 2]
    /\ UNCHANGED <<dead, balanced>>

\* n->Release(count), called on a live node.
Release(n, count) ==
    /\ ~aborted
    /\ n \in alloc
    /\ Outcomes(<<"Release", n, count>>, ReleaseH(Heap("stale"), n, count),
                ReleaseH(Heap("crash"), n, count),
                [ext EXCEPT ![n] = IF ~CanRelease(refcount_[n], count) THEN @
                                   ELSE IF @ < count THEN -1 ELSE @ - count])

\* p->LookupChildByName(name, acquire)
LookupChildByName(p, name, acquire) ==
    /\ ~aborted
    /\ p \in alloc
    /\ LET hs == LookupScan(Heap("stale"), children_[p], name, acquire)
           hc == LookupScan(Heap("crash"), children_[p], name, acquire)
       IN Outcomes(<<"LookupChildByName", p, name, acquire>>, hs, hc,
                   [a \in Addr |-> IF acquire /\ hs.ret = a /\ ext[a] >= 0
                                   THEN ext[a] + 1 ELSE ext[a]])

\* n->SetDeleted()
SetDeleted(n) ==
    /\ ~aborted
    /\ n \in alloc
    /\ Commit(<<"SetDeleted", n>>, [Heap("stale") EXCEPT !.deleted[n] = TRUE])
    /\ UNCHANGED <<roots, ext, dead, balanced>>

\* n->Rename(name, new_parent); the record of the operation also keeps the
\* parent link that n had before.
Rename(n, name, new_parent) ==
    /\ ~aborted
    /\ n \in alloc
    /\ new_parent \in alloc \cup {NULL}
    /\ Outcomes(<<"Rename", n, name, new_parent, parent_[n]>>,
                RenameH(Heap("stale"), n, name, new_parent),
                RenameH(Heap("crash"), n, name, new_parent), ext)

\* node::FromInode(ino, tracker)
FromInode(ino) ==
    /\ ~aborted
    /\ LET h == IF CheckTracked(ino) THEN [Heap("stale") EXCEPT !.ret = InodeToPtr(ino)]
                ELSE TrackerAbort(Heap("stale"))
       IN Commit(<<"FromInode", ino>>, h) /\ SameHistory(h)

\* n->AddHandle(h) with a handle object h that the caller has just made.
AddHandle(n, x) ==
    /\ ~aborted
    /\ n \in alloc
    /\ \A m \in Addr : ~Contains(handles_[m], x)
    /\ closed[x] = 0
    /\ Commit(<<"AddHandle", n, x>>, [Heap("stale") EXCEPT !.handles[n] = Append(@, x)])
    /\ UNCHANGED <<roots, ext, dead, balanced>>

\* n->DestroyHandle(h)
DestroyHandle(n, x) ==
    /\ ~aborted
    /\ n \in alloc
    /\ Commit(<<"DestroyHandle", n, x>>, DestroyHandleH(Heap("stale"), n, x))
    /\ SameHistory(DestroyHandleH(Heap("stale"), n, x))

\* n->AddDirHandle(d) with a dirhandle object d that the caller has just made.
AddDirHandle(n, d) ==
    /\ ~aborted
    /\ n \in alloc
    /\ \A m \in Addr : ~Contains(dirhandles_[m], d)
    /\ dclosed[d] = 0
    /\ Commit(<<"AddDirHandle", n, d>>, [Heap("stale") EXCEPT !.dirhandles[n] = Append(@, d)])
    /\ UNCHANGED <<roots, ext, dead, balanced>>

\* n->DestroyDirHandle(d)
DestroyDirHandle(n, d) ==
    /\ ~aborted
    /\ n \in alloc
    /\ Commit(<<"DestroyDirHandle", n, d>>, DestroyDirHandleH(Heap("stale"), n, d))
    /\ SameHistory(DestroyDirHandleH(Heap("stale"), n, d))

Next ==
    \/ \E a \in Addr, p \in Addr, nm \in Names : Create(a, p, nm)
    \/ \E a \in Addr : CreateRoot(a)
    \/ \E n \in Addr, c \in 0..MaxCount : Release(n, c)
    \/ \E p \in Addr, nm \in LookupNames, acq \in BOOLEAN : LookupChildByName(p, nm, acq)
    \/ \E n \in Addr : SetDeleted(n)
    \/ \E n \in Addr, nm \in Names, np \in Addr \cup {NULL} : Rename(n, nm, np)
    \/ \E n \in Addr : FromInode(ToInode(n))
    \/ \E n \in Addr, x \in HandleId : AddHandle(n, x)
    \/ \E n \in Addr, x \in HandleId : DestroyHandle(n, x)
    \/ \E n \in Addr, d \in DirHandleId : AddDirHandle(n, d)
    \/ \E n \in Addr, d \in DirHandleId : DestroyDirHandle(n, d)

Spec == Init /\ [][Next]_vars

----------------------------------------------------------------------------
\* The concurrent scenario: every thread does Iterations rounds of Acquire()
\* and Release(1) on the node Shared, which a Create under the root has made
\* (reference count 1).  A call takes the lock, reads refcount_, writes it
\* and gives the lock back; the steps of different threads interleave.

\* The address of the node the threads share.
Shared == 2

\* Mutant of LockFree: the lock keeps nobody out.
LockNeverWaits(t) == TRUE

\* std::recursive_mutex: thread t gets the lock when no other thread holds it.
LockFree(t) == lockOwner \in {NoThread, t}

InitConc ==
    /\ HeapIs(NewNode(NewRoot(EmptyHeap, FirstRoot), Shared, FirstRoot, <<97>>))
    /\ aborted = FALSE
    /\ op = OpRec(<<"Create", FirstRoot, <<97>>>>,
                  NewNode(NewRoot(EmptyHeap, FirstRoot), Shared, FirstRoot, <<97>>))
    /\ roots = {FirstRoot}
    /\ ext = [a \in Addr |-> IF a = FirstRoot THEN 2 ELSE IF a = Shared THEN 1 ELSE 0]
    /\ dead = {}
    /\ balanced = TRUE
    /\ steps = 0
    /\ lockOwner = NoThread
    /\ pc = [t \in Threads |-> "acquire"]
    /\ tmp = [t \in Threads |-> 0]
    /\ iter = [t \in Threads |-> 0]

\* The heap h becomes the next state's heap.
HeapBecomes(h) ==
    /\ alloc' = h.alloc
    /\ active_nodes_' = h.active
    /\ refcount_' = h.refcount
    /\ parent_' = h.parent
    /\ children_' = h.children
    /\ name_' = h.name
    /\ deleted_' = h.deleted
    /\ handles_' = h.handles
    /\ dirhandles_' = h.dirhandles

\* The lock_guard of Acquire or Release: the thread waits for the lock.
TakeLock(t) ==
    /\ pc[t] \in {"acquire", "release"}
    /\ LockFree(t)
    /\ lockOwner' = t
    /\ pc' = [pc EXCEPT ![t] = IF pc[t] = "acquire" THEN "acq_load" ELSE "rel_load"]
    /\ UNCHANGED <<heapvars, aborted, op, histvars, steps, tmp, iter>>

\* The read of refcount_ in refcount_++ and in Release.
LoadRefcount(t) ==
    /\ pc[t] \in {"acq_load", "rel_load"}
    /\ tmp' = [tmp EXCEPT ![t] = refcount_[Shared]]
    /\ pc' = [pc EXCEPT ![t] = IF pc[t] = "acq_load" THEN "acq_store" ELSE "rel_store"]
    /\ UNCHANGED <<heapvars, aborted, op, histvars, steps, lockOwner, iter>>

\* The write of refcount_++.
AcquireStore(t) ==
    /\ pc[t] = "acq_store"
    /\ refcount_' = [refcount_ EXCEPT ![Shared] = tmp[t] + 1]
    /\ pc' = [pc EXCEPT ![t] = "acq_unlock"]
    /\ UNCHANGED <<alloc, active_nodes_, parent_, children_, name_, deleted_, handles_,
                   dirhandles_, aborted, op, histvars, steps, lockOwner, tmp, iter>>

\* The rest of Release(1): the count is subtracted and a node whose count
\* is 0 is destroyed.
ReleaseStore(t) ==
    /\ pc[t] = "rel_store"
    /\ HeapBecomes(ReleaseH([Heap("stale") EXCEPT !.refcount[Shared] = tmp[t]], Shared, 1))
    /\ pc' = [pc EXCEPT ![t] = "rel_unlock"]
    /\ UNCHANGED <<aborted, op, histvars, steps, lockOwner, tmp, iter>>

\* The lock_guard goes out of scope.
Unlock(t) ==
    /\ pc[t] \in {"acq_unlock", "rel_unlock"}
    /\ lockOwner' = IF lockOwner = t THEN NoThread ELSE lockOwner
    /\ iter' = [iter EXCEPT ![t] = IF pc[t] = "rel_unlock" THEN @ + 1 ELSE @]
    /\ pc' = [pc EXCEPT ![t] = IF pc[t] = "acq_unlock" THEN "release"
                               ELSE IF iter[t] + 1 >= Iterations THEN "done"
                               ELSE "acquire"]
    /\ UNCHANGED <<heapvars, aborted, op, histvars, steps, tmp>>

NextConc ==
    \/ \E t \in Threads : TakeLock(t)
    \/ \E t \in Threads : LoadRefcount(t)
    \/ \E t \in Threads : AcquireStore(t)
    \/ \E t \in Threads : ReleaseStore(t)
    \/ \E t \in Threads : Unlock(t)

SpecConc == InitConc /\ [][NextConc]_vars

----------------------------------------------------------------------------
\* The tree operations of Spec (Create, Release, LookupChildByName, Rename),
\* from the state where the daemon has made its root and one node under it.

InitDeep ==
    /\ HeapIs(NewNode(NewRoot(EmptyHeap, FirstRoot), Shared, FirstRoot, <<97>>))
    /\ aborted = FALSE
    /\ op = OpRec(<<"Create", FirstRoot, <<97>>>>,
                  NewNode(NewRoot(EmptyHeap, FirstRoot), Shared, FirstRoot, <<97>>))
    /\ roots = {FirstRoot}
    /\ ext = [a \in Addr |-> IF a = FirstRoot THEN 2 ELSE IF a = Shared THEN 1 ELSE 0]
    /\ dead = {}
    /\ balanced = TRUE
    /\ steps = 0
    /\ NoThreads

NextDeep ==
    \/ \E a \in Addr, p \in Addr, nm \in Names : Create(a, p, nm)
    \/ \E n \in Addr, c \in 0..MaxCount : Release(n, c)
    \/ \E p \in Addr, nm \in LookupNames, acq \in BOOLEAN : LookupChildByName(p, nm, acq)
    \/ \E n \in Addr, nm \in Names, np \in Addr \cup {NULL} : Rename(n, nm, np)

SpecDeep == InitDeep /\ [][NextDeep]_vars

----------------------------------------------------------------------------
\* The creation scenario: the thread Creator runs node::Create, Iterations
\* times, one statement of Create, of the constructor and of AddToParent at
\* a time; the thread Observer runs whole operations, each of which waits
\* for the lock first.  tmp[Creator] holds the locals of the Create that is
\* running: the new node, the parent and the parent's reference count when
\* the Create began.

Creator == 1
Observer == 2

InitCreate ==
    /\ HeapIs(NewRoot(EmptyHeap, FirstRoot))
    /\ aborted = FALSE
    /\ op = OpRec(<<"CreateRoot">>, NewRoot(EmptyHeap, FirstRoot))
    /\ roots = {FirstRoot}
    /\ ext = [a \in Addr |-> IF a = FirstRoot THEN 2 ELSE 0]
    /\ dead = {}
    /\ balanced = TRUE
    /\ steps = 0
    /\ lockOwner = NoThread
    /\ pc = [t \in Threads |-> IF t = Creator THEN "create" ELSE "idle"]
    /\ tmp = [t \in Threads |-> 0]
    /\ iter = [t \in Threads |-> 0]

\* The lock_guard of node::Create.
CreateLock ==
    /\ ~aborted
    /\ pc[Creator] = "create"
    /\ LockFree(Creator)
    /\ lockOwner' = Creator
    /\ pc' = [pc EXCEPT ![Creator] = "new"]
    /\ UNCHANGED <<heapvars, aborted, op, histvars, steps, tmp, iter>>

\* new node(parent, name, lock, tracker): the memory at a and the
\* initializers of the constructor.
ConstructNode(a, parent, name) ==
    /\ pc[Creator] = "new"
    /\ a \in Addr \ alloc
    /\ parent \in alloc
    /\ alloc' = alloc \cup {a}
    /\ name_' = [name_ EXCEPT ![a] = name]
    /\ refcount_' = [refcount_ EXCEPT ![a] = 0]
    /\ parent_' = [parent_ EXCEPT ![a] = NULL]
    /\ deleted_' = [deleted_ EXCEPT ![a] = FALSE]
    /\ children_' = [children_ EXCEPT ![a] = <<>>]
    /\ handles_' = [handles_ EXCEPT ![a] = <<>>]
    /\ dirhandles_' = [dirhandles_ EXCEPT ![a] = <<>>]
    /\ tmp' = [tmp EXCEPT ![Creator] = <<a, parent, refcount_[parent]>>]
    /\ ext' = [ext EXCEPT ![a] = 1]
    /\ pc' = [pc EXCEPT ![Creator] = "track"]
    /\ UNCHANGED <<active_nodes_, aborted, op, roots, dead, balanced, closed, dclosed, steps,
                   lockOwner, iter>>

\* tracker_->NodeCreated(this) in the constructor.
CtorTrack ==
    /\ pc[Creator] = "track"
    /\ active_nodes_' = NodeCreated(Heap("stale"), tmp[Creator][1]).active
    /\ aborted' = NodeCreated(Heap("stale"), tmp[Creator][1]).aborted
    /\ pc' = [pc EXCEPT ![Creator] = "ctor_acquire"]
    /\ UNCHANGED <<alloc, refcount_, parent_, children_, name_, deleted_, handles_,
                   dirhandles_, op, histvars, steps, lockOwner, tmp, iter>>

\* Acquire() in the constructor.
CtorAcquire ==
    /\ ~aborted
    /\ pc[Creator] = "ctor_acquire"
    /\ refcount_' = Acquire(Heap("stale"), tmp[Creator][1]).refcount
    /\ pc' = [pc EXCEPT ![Creator] = "link"]
    /\ UNCHANGED <<alloc, active_nodes_, parent_, children_, name_, deleted_, handles_,
                   dirhandles_, aborted, op, histvars, steps, lockOwner, tmp, iter>>

\* parent_ = parent in AddToParent.
LinkParent ==
    /\ pc[Creator] = "link"
    /\ parent_' = [parent_ EXCEPT ![tmp[Creator][1]] = tmp[Creator][2]]
    /\ pc' = [pc EXCEPT ![Creator] = "push"]
    /\ UNCHANGED <<alloc, active_nodes_, refcount_, children_, name_, deleted_, handles_,
                   dirhandles_, aborted, op, histvars, steps, lockOwner, tmp, iter>>

\* parent_->children_.push_back(this) in AddToParent.
LinkPush ==
    /\ pc[Creator] = "push"
    /\ children_' = [children_ EXCEPT ![tmp[Creator][2]] = Append(@, tmp[Creator][1])]
    /\ pc' = [pc EXCEPT ![Creator] = "parent_acquire"]
    /\ UNCHANGED <<alloc, active_nodes_, refcount_, parent_, name_, deleted_, handles_,
                   dirhandles_, aborted, op, histvars, steps, lockOwner, tmp, iter>>

\* parent_->Acquire() in AddToParent.
LinkAcquire ==
    /\ pc[Creator] = "parent_acquire"
    /\ refcount_' = Acquire(Heap("stale"), tmp[Creator][2]).refcount
    /\ pc' = [pc EXCEPT ![Creator] = "create_unlock"]
    /\ UNCHANGED <<alloc, active_nodes_, parent_, children_, name_, deleted_, handles_,
                   dirhandles_, aborted, op, histvars, steps, lockOwner, tmp, iter>>

\* node::Create returns: its lock_guard goes out of scope.
CreateUnlock ==
    /\ pc[Creator] = "create_unlock"
    /\ lockOwner' = IF lockOwner = Creator THEN NoThread ELSE lockOwner
    /\ iter' = [iter EXCEPT ![Creator] = @ + 1]
    /\ pc' = [pc EXCEPT ![Creator] = IF iter[Creator] + 1 >= Iterations THEN "done"
                                     ELSE "create"]
    /\ UNCHANGED <<heapvars, aborted, op, histvars, steps, tmp>>

\* The observing thread starts an operation: it has the lock.
Observes == LockFree(Observer) /\ steps < MaxObserved

NextCreate ==
    \/ CreateLock
    \/ \E a \in Addr, p \in Addr, nm \in Names : ConstructNode(a, p, nm)
    \/ CtorTrack
    \/ CtorAcquire
    \/ LinkParent
    \/ LinkPush
    \/ LinkAcquire
    \/ CreateUnlock
    \/ \E n \in Addr, c \in 0..MaxCount : Observes /\ Release(n, c)
    \/ \E p \in Addr, nm \in LookupNames, acq \in BOOLEAN :
          Observes /\ LookupChildByName(p, nm, acq)
    \/ \E n \in Addr, nm \in Names, np \in Addr \cup {NULL} :
          Observes /\ Rename(n, nm, np)
    \/ \E n \in Addr : Observes /\ FromInode(ToInode(n))

SpecCreate == InitCreate /\ [][NextCreate]_vars

----------------------------------------------------------------------------
\* The properties.  In Spec every step is one operation, and op' tells which.

\* The receiver of the last operation and the count of a Release.
Receiver(o) == o.args[1]
Count(o) == o.args[2]

\* Every live node's parent link is null or points to a live node that has
\* the node among its children.
ParentLinksSound ==
    \A n \in alloc : parent_[n] # NULL =>
        parent_[n] \in alloc /\ Contains(children_[parent_[n]], n)

\* C1: a Release(count) with count > refcount_ returns false and changes
\* nothing: not the reference count, not the parent link, not the parent's
\* children or reference count, not the handles, not the tracker; no node is
\* destroyed.
OverReleaseIsNoOp ==
    [][(op'.name = "Release" /\ Count(op') > refcount_[Receiver(op')])
          => /\ ~aborted'
             /\ op'.ret = FALSE
             /\ UNCHANGED heapvars]_vars

\* C1 witness: a node with a parent and a handle has been over-released.
OverReleaseHappened ==
    /\ op.name = "Release" /\ ~aborted /\ op.err /\ op.ret = FALSE
    /\ Receiver(op) \in alloc
    /\ Count(op) > refcount_[Receiver(op)]
    /\ parent_[Receiver(op)] # NULL
    /\ handles_[Receiver(op)] # <<>>

\* C2: a Release(count) with count <= refcount_ on a live node subtracts
\* count and returns true exactly when the count became 0; then, and only
\* then, the node is destroyed in the call: it is out of its parent's
\* children, its handles are gone and the tracker has forgotten it.
ReleaseContract ==
    [][(op'.name = "Release" /\ Count(op') <= refcount_[Receiver(op')])
          => LET n == Receiver(op')
                 count == Count(op')
             IN /\ ~aborted'
                /\ op'.ret = (refcount_[n] = count)
                /\ refcount_[n] = count =>
                      /\ n \notin alloc'
                      /\ n \notin active_nodes_'
                      /\ parent_[n] # NULL => ~Contains(children_'[parent_[n]], n)
                      /\ handles_'[n] = <<>>
                      /\ dirhandles_'[n] = <<>>
                /\ refcount_[n] > count =>
                      /\ n \in alloc'
                      /\ n \in active_nodes_'
                      /\ refcount_'[n] = refcount_[n] - count]_vars

\* C3: once a node is destroyed, FromInode with its identifier fails the
\* CHECK of CheckTracked in every later state.
StaleInodeIsFatal ==
    [][(op'.name = "FromInode" /\ op'.args[1] \in dead) => aborted']_vars

\* C4: for every live node n, FromInode(ToInode(n)) passes the CHECK and
\* returns n, and two live nodes have different identifiers.
InodeRoundTrip ==
    [][/\ \A n \in alloc :
             (op'.name = "FromInode" /\ op'.args[1] = ToInode(n))
                => (~aborted' /\ op'.ret = n)
       /\ \A n, m \in alloc : ToInode(n) = ToInode(m) => n = m]_vars

\* C4 witness: FromInode has resolved the identifier of one of two live nodes.
InodeResolved ==
    /\ op.name = "FromInode" /\ ~aborted
    /\ op.ret \in alloc
    /\ op.args[1] = ToInode(op.ret)
    /\ Cardinality(alloc) >= 2

\* C5: between the operations, every node that is made and not destroyed has
\* a reference count above 0.
RefcountPositive == \A n \in alloc : refcount_[n] > 0

\* C5 witness: a Release has destroyed a node and other nodes live on.
LiveAfterDestroy ==
    /\ op.name = "Release" /\ ~aborted /\ op.ret = TRUE
    /\ Cardinality(alloc) >= 2

\* C6: no node is destroyed while its children list is non-empty, so no
\* live node's parent link points to a destroyed node.
ParentOutlivesChildren ==
    [][~aborted' =>
          /\ \A n \in alloc \ alloc' : children_'[n] = <<>>
          /\ \A c \in alloc' : parent_'[c] # NULL => parent_'[c] \in alloc']_vars

\* What Rename(name, new_parent) on n has done, as C7 states it; r is the
\* change of n's own reference count.
Renamed(n, name, old_parent, new_parent, r) ==
    /\ ~aborted'
    /\ Contains(children_'[new_parent], n)
    /\ ~Contains(children_'[old_parent], n)
    /\ parent_'[n] = new_parent
    /\ name_'[n] = name
    /\ old_parent # n => refcount_'[old_parent] = refcount_[old_parent] - 1
    /\ new_parent # n => refcount_'[new_parent] = refcount_[new_parent] + 1
    /\ refcount_'[n] = refcount_[n] + r

\* C7: after n.Rename(newName, newParent) with newParent another node than
\* n's parent oldParent, n is in newParent's children and not in
\* oldParent's, its parent link is newParent, its name is newName,
\* oldParent's reference count is one less, newParent's one more, and n's
\* own is unchanged.
RenameMoves ==
    [][(/\ op'.name = "Rename"
        /\ op'.args[3] \in alloc
        /\ parent_[Receiver(op')] # NULL
        /\ op'.args[3] # parent_[Receiver(op')])
          => LET n == Receiver(op')
                 old == parent_[n]
                 new == op'.args[3]
             IN /\ Renamed(n, op'.args[2], old, new, 0)
                /\ refcount_'[old] = refcount_[old] - 1
                /\ refcount_'[new] = refcount_[new] + 1]_vars

\* C7 as amended: the same, when oldParent is live, has n among its children
\* and has a reference count above 1 (the detach does not destroy it); n's
\* own reference count is unchanged unless n is its own old or new parent.
RenameMovesUnlessParentDies ==
    [][(/\ op'.name = "Rename"
        /\ op'.args[3] \in alloc
        /\ parent_[Receiver(op')] # NULL
        /\ op'.args[3] # parent_[Receiver(op')]
        /\ parent_[Receiver(op')] \in alloc
        /\ Contains(children_[parent_[Receiver(op')]], Receiver(op'))
        /\ refcount_[parent_[Receiver(op')]] > 1)
          => LET n == Receiver(op')
                 old == parent_[n]
                 new == op'.args[3]
             IN Renamed(n, op'.args[2], old, new,
                        (IF new = n THEN 1 ELSE 0) - (IF old = n THEN 1 ELSE 0))]_vars

\* C7 witness: a Rename has moved a node from one live parent, which lives
\* on, to another.
RenameMoved ==
    /\ op.name = "Rename" /\ ~aborted
    /\ Receiver(op) \in alloc
    /\ parent_[Receiver(op)] = op.args[3]
    /\ op.args[4] \in alloc \ {NULL, op.args[3], Receiver(op)}
    /\ op.args[3] # Receiver(op)

\* What p->LookupChildByName(name, false) returns in this state.
LookupResult(p, name) == LookupScan(Heap("stale"), children_[p], name, FALSE).ret

\* C8: SetDeleted changes the deleted flag of its node and nothing else;
\* from then on no LookupChildByName, for any name, returns the node, which
\* stays live and deleted until a Release destroys it.
SetDeletedOnlyHides ==
    [][/\ op'.name = "SetDeleted" =>
             /\ ~aborted'
             /\ deleted_' = [deleted_ EXCEPT ![Receiver(op')] = TRUE]
             /\ UNCHANGED <<alloc, active_nodes_, refcount_, parent_, children_,
                            name_, handles_, dirhandles_>>
       /\ (op'.name = "LookupChildByName" /\ ~aborted' /\ op'.ret # NULL)
             => ~deleted_[op'.ret]
       /\ \A p \in alloc, nm \in LookupNames :
             LookupResult(p, nm) # NULL => ~deleted_[LookupResult(p, nm)]
       /\ \A n \in alloc :
             (deleted_[n] /\ ~aborted') =>
                 \/ n \in alloc' /\ deleted_'[n]
                 \/ n \notin alloc' /\ op'.name \in {"Release", "Rename"}]_vars

\* C8 witness: a lookup on the parent of a deleted node, by that node's
\* name, has found nothing.
DeletedNodeSkipped ==
    /\ op.name = "LookupChildByName" /\ ~aborted /\ op.ret = NULL
    /\ \E c \in alloc :
          /\ deleted_[c]
          /\ parent_[c] = Receiver(op)
          /\ StrCaseEq(op.args[2], name_[c])

\* C9: while the threads do their rounds of Acquire and Release(1) the
\* shared node is never destroyed and its reference count is never 0, and
\* when all are done the count is 1 again.
BalancedTrafficIsLossless ==
    /\ Shared \in alloc
    /\ Shared \in active_nodes_
    /\ refcount_[Shared] > 0
    /\ (\A t \in Threads : pc[t] = "done") => refcount_[Shared] = 1

\* C9 witness: every thread has done all its rounds.
AllThreadsDone ==
    /\ \A t \in Threads : pc[t] = "done" /\ iter[t] = Iterations
    /\ refcount_[Shared] = 1

\* C10: CreateRoot returns a tracked node without a parent and with
\* reference count 2; a Release(1) on a root that no caller has released yet
\* does not destroy it; and as long as the callers have released no more of
\* a root's references than the one of its construction and those that
\* lookups gave them, the root stays live.
RootSurvives ==
    [][/\ op'.name = "CreateRoot" =>
             /\ ~aborted'
             /\ op'.ret \notin alloc
             /\ op'.ret \in alloc' /\ op'.ret \in active_nodes_'
             /\ parent_'[op'.ret] = NULL
             /\ refcount_'[op'.ret] = 2
       /\ \A r \in roots :
             (op'.name = "Release" /\ op'.args = <<r, 1>> /\ ext[r] >= 2)
                => (~aborted' /\ op'.ret = FALSE /\ r \in alloc')
       /\ \A r \in roots :
             (~aborted' /\ ext'[r] >= 1) => r \in alloc']_vars

\* C10 witness: a root that CreateRoot has made has been released once and
\* lives on.
RootReleasedOnce ==
    /\ op.name = "Release" /\ ~aborted
    /\ op.args[1] \in roots \ {FirstRoot}
    /\ Count(op) = 1
    /\ refcount_[op.args[1]] = 1

\* C11: Create(parent, name) with a live parent makes a new tracked node
\* with reference count 1, its parent link set to parent, not deleted and
\* once in parent's children; parent's reference count is one more; no
\* other node's reference count, parent link, children, deleted flag or
\* tracker membership changes.
CreateLinksOneNode ==
    [][op'.name = "Create"
          => LET c == op'.ret
                 p == op'.args[1]
             IN /\ ~aborted'
                /\ c \notin alloc /\ c \notin active_nodes_
                /\ alloc' = alloc \cup {c}
                /\ active_nodes_' = active_nodes_ \cup {c}
                /\ refcount_'[c] = 1
                /\ parent_'[c] = p
                /\ name_'[c] = op'.args[2]
                /\ ~deleted_'[c]
                /\ Occurrences(children_'[p], c) = 1
                /\ refcount_'[p] = refcount_[p] + 1
                /\ \A m \in alloc :
                      /\ m # p => refcount_'[m] = refcount_[m]
                      /\ m # p => children_'[m] = children_[m]
                      /\ \A k \in alloc \ {c} :
                            Occurrences(children_'[m], k) = Occurrences(children_[m], k)
                      /\ parent_'[m] = parent_[m]
                      /\ deleted_'[m] = deleted_[m]]_vars

\* C11 witness: a Create has added a second child to a parent, next to a
\* deleted one.
SecondChildCreated ==
    /\ op.name = "Create" /\ ~aborted
    /\ op.ret \in alloc
    /\ Len(children_[op.args[1]]) = 2
    /\ \E m \in alloc \ {op.ret} : deleted_[m] /\ parent_[m] = op.args[1]

\* The children of p that LookupChildByName(name) may return: not deleted,
\* with a name equal to name but for the case of the letters.
Candidates(p, name) ==
    {c \in Addr : /\ Contains(children_[p], c)
                  /\ ~deleted_[c]
                  /\ StrCaseEq(name, name_[c])}

\* What C12 says of the state after a lookup that returned r.
LookupFrame(r, acquire) ==
    /\ ~aborted'
    /\ refcount_' = IF r # NULL /\ acquire THEN [refcount_ EXCEPT ![r] = @ + 1]
                    ELSE refcount_
    /\ UNCHANGED <<alloc, active_nodes_, parent_, children_, name_, deleted_,
                   handles_, dirhandles_>>

\* C12: p.LookupChildByName(name, acquire) returns c exactly when c is a
\* child of p that is not deleted and whose name equals name ignoring case,
\* and null when there is none; a returned child's reference count is one
\* more when acquire is true, and nothing else changes.
LookupReturnsEveryMatch ==
    [][op'.name = "LookupChildByName"
          => /\ \A c \in Addr : (op'.ret = c) <=> (c \in Candidates(op'.args[1], op'.args[2]))
             /\ (op'.ret = NULL) <=> (Candidates(op'.args[1], op'.args[2]) = {})
             /\ LookupFrame(op'.ret, op'.args[3])]_vars

\* C12 as amended: the lookup returns the first such child in the order of
\* p's children, and null when there is none.
LookupReturnsFirstMatch ==
    [][op'.name = "LookupChildByName"
          => LET p == op'.args[1]
                 cand == Candidates(p, op'.args[2])
             IN /\ cand = {} => op'.ret = NULL
                /\ cand # {} =>
                      /\ op'.ret \in cand
                      /\ \A c \in cand :
                            FindFirst(children_[p], op'.ret) <= FindFirst(children_[p], c)
                /\ LookupFrame(op'.ret, op'.args[3])]_vars

\* C12 witness: an acquiring lookup, by a name in another case, has returned
\* the first of two children that match.
FirstOfTwoFound ==
    /\ op.name = "LookupChildByName" /\ ~aborted
    /\ op.args[3]
    /\ op.ret \in alloc
    /\ name_[op.ret] # op.args[2]
    /\ Cardinality(Candidates(op.args[1], op.args[2])) = 2

ParentChildConsistent ==
    \A p, c \in alloc :
        /\ Contains(children_[p], c) <=> parent_[c] = p
        /\ Occurrences(children_[p], c) <= 1

\* The node that the running Create constructs is tracked and its reference
\* count is still 0, or it is not yet among its parent's children, or it is
\* there and the parent's reference count is not yet incremented.
HalfCreated ==
    /\ pc[Creator] \in {"ctor_acquire", "link", "push", "parent_acquire", "create_unlock"}
    /\ tmp[Creator][1] \in active_nodes_
    /\ \/ refcount_[tmp[Creator][1]] = 0
       \/ ~Contains(children_[tmp[Creator][2]], tmp[Creator][1])
       \/ refcount_[tmp[Creator][2]] = tmp[Creator][3]

\* C15: no operation of another thread (LookupChildByName, FromInode,
\* Release, Rename) runs in a state where the node of a running Create is
\* tracked with reference count 0, or tracked and not yet in parent's
\* children, or in parent's children before parent's reference count is
\* incremented.
CreateIsAtomic == [][steps' # steps => ~HalfCreated]_vars

\* C15 witness: after both Creates, a lookup of the other thread has
\* returned the node of the last Create, complete.
CreatedNodeObserved ==
    /\ pc[Creator] = "done" /\ iter[Creator] = Iterations
    /\ op.name = "LookupChildByName" /\ ~aborted
    /\ op.ret = tmp[Creator][1]
    /\ op.args[1] = tmp[Creator][2]
    /\ op.ret \in active_nodes_
    /\ refcount_[op.ret] = 1

\* The list s without its element x.
Without(s, x) == SelectSeq(s, LAMBDA y : y # x)

\* C16: a handle (a dirhandle) attached to a node is closed once: by the
\* DestroyHandle (DestroyDirHandle) that names it, which removes that handle
\* only and leaves the node's other handles and its reference count as they
\* are, or when its node is destroyed, which leaves none of its handles
\* open; no handle is closed twice; and DestroyHandle (DestroyDirHandle) on a
\* handle that the node does not hold fails a CHECK.
HandlesClosedOnce ==
    [][/\ \A x \in HandleId : closed'[x] <= 1
       /\ \A d \in DirHandleId : dclosed'[d] <= 1
       /\ \A m \in alloc' :
             /\ \A x \in HandleId : Contains(handles_'[m], x) => closed'[x] = 0
             /\ \A d \in DirHandleId : Contains(dirhandles_'[m], d) => dclosed'[d] = 0
       /\ op'.name = "DestroyHandle" =>
             LET n == op'.args[1]
                 x == op'.args[2]
             IN IF Contains(handles_[n], x)
                THEN /\ ~aborted'
                     /\ handles_' = [handles_ EXCEPT ![n] = Without(@, x)]
                     /\ closed' = [closed EXCEPT ![x] = 1]
                     /\ UNCHANGED <<alloc, refcount_, dirhandles_, dclosed>>
                ELSE aborted'
       /\ op'.name = "DestroyDirHandle" =>
             LET n == op'.args[1]
                 d == op'.args[2]
             IN IF Contains(dirhandles_[n], d)
                THEN /\ ~aborted'
                     /\ dirhandles_' = [dirhandles_ EXCEPT ![n] = Without(@, d)]
                     /\ dclosed' = [dclosed EXCEPT ![d] = 1]
                     /\ UNCHANGED <<alloc, refcount_, handles_, closed>>
                ELSE aborted'
       /\ ~aborted' =>
             \A n \in alloc \ alloc' :
                 /\ \A x \in HandleId : Contains(handles_[n], x) => closed'[x] = 1
                 /\ \A d \in DirHandleId : Contains(dirhandles_[n], d) => dclosed'[d] = 1
       /\ (~aborted' /\ op'.name \notin {"DestroyHandle", "DestroyDirHandle"}) =>
             /\ \A x \in HandleId :
                   closed'[x] # closed[x] =>
                       \E n \in alloc \ alloc' : Contains(handles_[n], x)
             /\ \A d \in DirHandleId :
                   dclosed'[d] # dclosed[d] =>
                       \E n \in alloc \ alloc' : Contains(dirhandles_[n], d)]_vars

\* C16 witness: a DestroyHandle has closed one of the two handles of a node
\* and left the other attached.
OneOfTwoHandlesClosed ==
    /\ op.name = "DestroyHandle" /\ ~aborted
    /\ closed[op.args[2]] = 1
    /\ Len(handles_[op.args[1]]) = 1
    /\ closed[handles_[op.args[1]][1]] = 0

\* The node that k parent links lead to from n (NULL when the chain ends
\* before).
RECURSIVE Up(_, _)
Up(n, k) ==
    IF k = 0 \/ n = NULL THEN n ELSE Up(parent_[n], k - 1)

\* C19: the parent relation is acyclic: from every live node the parent
\* links lead to a node without a parent, and no node is its own ancestor.
TreeIsAcyclic ==
    \A n \in alloc :
        /\ \E k \in 0..NumAddr : Up(n, k) = NULL
        /\ \A k \in 1..NumAddr : Up(n, k) # n

\* The step is a Release that brings its receiver's reference count to 0
\* while the receiver's parent is another, live node.
ReleaseDestroysChild ==
    /\ op'.name = "Release"
    /\ refcount_[Receiver(op')] = Count(op')
    /\ Count(op') > 0
    /\ parent_[Receiver(op')] \in alloc \ {Receiver(op')}

\* What C17 says of such a step.
CascadeEffect ==
    /\ ~aborted'
    /\ Receiver(op') \notin alloc'
    /\ \A c \in alloc \ alloc' :
          /\ c \notin active_nodes_'
          /\ parent_[c] \in alloc \ {c} =>
                /\ ~Contains(children_'[parent_[c]], c)
                /\ refcount_[parent_[c]] = 1 => parent_[c] \notin alloc'
                /\ refcount_[parent_[c]] > 1 =>
                      /\ parent_[c] \in alloc'
                      /\ refcount_'[parent_[c]] = refcount_[parent_[c]] - 1

\* C17: when a Release destroys a node c whose parent p is live, the call
\* does not abort; a p whose reference count was 1 is destroyed in the same
\* call, and so on up the parent chain; a p whose reference count was above
\* 1 stays live with one reference less, and the cascade stops there; every
\* node destroyed in the call is out of its parent's children and out of
\* the NodeTracker when the call returns.
CascadeUpward == [][ReleaseDestroysChild => CascadeEffect]_vars

\* The cascade where the parent links are sound and acyclic before the call.
CascadeUpwardInTree ==
    [][(ParentLinksSound /\ TreeIsAcyclic /\ ReleaseDestroysChild) => CascadeEffect]_vars

\* C18: as long as the callers have released, on each node, no more than
\* the references they were given for it (balanced), after every
\* operation every live node's reference count is the number of its children
\* plus its outstanding external references, so it is at least the number
\* of its children; and a node that the operation destroyed had no
\* outstanding external reference and is no live node's parent.
RefcountAccounting ==
    [][(~aborted' /\ balanced')
          => /\ \A n \in alloc' :
                   /\ refcount_'[n] = Len(children_'[n]) + ext'[n]
                   /\ refcount_'[n] >= Len(children_'[n])
             /\ \A d \in alloc \ alloc' :
                   /\ ext'[d] = 0
                   /\ \A c \in alloc' : parent_'[c] # d]_vars

\* The balanced case of C18 within four operations: a Release of the last
\* external reference of a node has left the node live, held by its child
\* only.
HeldByChildOnly ==
    /\ op.name = "Release" /\ ~aborted
    /\ Receiver(op) \in alloc
    /\ balanced
    /\ ext[Receiver(op)] = 0
    /\ Len(children_[Receiver(op)]) = 1
    /\ refcount_[Receiver(op)] = 1

\* C20: a Rename of a live node n to a live new parent other than n's
\* parent touches no destroyed node: the new parent is live and tracked
\* when n is attached to it, and n and the new parent are live when Rename
\* returns.  Stated for the calls that start where the parent links are
\* sound and acyclic and no caller has released more than it was given.
RenameKeepsNewParent ==
    [][(/\ op'.name = "Rename"
        /\ op'.args[3] \in alloc
        /\ op'.args[3] # parent_[Receiver(op')]
        /\ ParentLinksSound /\ TreeIsAcyclic /\ balanced)
          => /\ ~op'.ub
             /\ ~aborted'
             /\ Receiver(op') \in alloc'
             /\ op'.args[3] \in alloc'
             /\ op'.args[3] \in active_nodes_']_vars

=============================================================================
